---- MODULE Spec2Model ----
(***************************************************************************)
(* The MIDI-to-chart encoder of tools/midi_to_txt.py, midi_to_chart:       *)
(* event pairing over the tracks of a MIDI file, quantization of the       *)
(* paired intervals to steps, painting of head/tail codes into a 4-lane    *)
(* chart and serialization of the chart as lines of 8 binary digits.       *)
(*                                                                         *)
(* The MIDI file is the input: its ticks_per_beat is drawn in Init and its *)
(* tracks and messages are drawn one at a time as the loops of lines 27    *)
(* and 29 consume them.                                                    *)
(***************************************************************************)
EXTENDS Integers, Sequences, FiniteSets, TLC

\* ---------------------------------------------------------------- bounds
\* Messages read from the whole file, and tracks of the file.
MaxMsgs == 4
MaxTracks == 2

\* ------------ the call of lines 76-81, rows_per_step the default of line 18
lane_notes == <<60, 61, 62, 63>>
subdivision == 4
rows_per_step == 4

\* --------------------------------------------------- the inputs enumerated
\* mid.ticks_per_beat: 3 gives ticks_per_step = 0, 240 gives 60 (every delta
\* a whole number of steps), 480 gives 120 (a delta of 60 is half a step).
TicksPerBeatValues == {3, 240, 480}
\* Notes of the messages: two lanes and one note outside lane_notes.
NoteValues == {60, 61, 64}
VelocityValues == {0, 64}
DeltaValues == {0, 60, 120}

\* A message of a track: msg.type, msg.note, msg.velocity, msg.time.  A
\* message of any other type (meta, control change) carries only a time.
NoteMsgs ==
    [type : {"note_on"}, note : NoteValues, velocity : VelocityValues, time : DeltaValues]
    \cup [type : {"note_off"}, note : NoteValues, velocity : {64}, time : DeltaValues]
OtherMsgs == [type : {"other"}, note : {0}, velocity : {0}, time : DeltaValues]
Msgs == NoteMsgs \cup OtherMsgs

VARIABLES
    pc,             \* position in midi_to_chart
    ticks_per_beat, \* line 20
    ticks_per_step, \* line 21
    ntracks,        \* tracks of mid.tracks begun so far
    nmsgs,          \* messages read so far, all tracks together
    abs_time,       \* line 28, 30
    active,         \* line 25: note -> start_tick
    notes,          \* line 24: sequence of (start_tick, end_tick, note)
    activeTrack,    \* history: note -> the track whose note-on is pending
    origin,         \* history: per interval of notes, the tracks of its on and off
    num_rows,       \* line 45
    chart,          \* line 48
    painted,        \* intervals of notes the loop of line 50 has handled
    skipped,        \* history: rows the guard of line 63 has rejected
    opened,         \* line 70: the output file has been opened
    output,         \* the lines written to the output file
    outcome         \* how the run ended

vars == <<pc, ticks_per_beat, ticks_per_step, ntracks, nmsgs, abs_time, active, notes,
          activeTrack, origin, num_rows, chart, painted, skipped, opened,
          output, outcome>>

\* ------------------------------------------------------------ dictionaries
EmptyMap == [n \in {} |-> 0]
\* d[k] = v
MapSet(d, k, v) == [n \in (DOMAIN d) \cup {k} |-> IF n = k THEN v ELSE d[n]]
\* del d[k]
MapDel(d, k) == [n \in (DOMAIN d) \ {k} |-> d[n]]

\* ------------------------------------------------------------ event pairing
\* line 31: msg.type == "note_on" and msg.velocity > 0
IsNoteOn(m) == m.type = "note_on" /\ m.velocity > 0

\* A variant of IsNoteOff that forgets the zero-velocity note-on.
IsNoteOffOnlyExplicit(m) == m.type = "note_off"

\* line 33: msg.type == "note_off" or (msg.type == "note_on" and msg.velocity == 0)
IsNoteOff(m) == m.type = "note_off" \/ (m.type = "note_on" /\ m.velocity = 0)

\* lines 30-36: the body of the loop over the messages of a track, as the
\* values of abs_time, active and notes after it.
HandleMsg(t, act, ns, m) ==
    LET now == t + m.time IN
    IF IsNoteOn(m)
    THEN [abs_time |-> now, active |-> MapSet(act, m.note, now), notes |-> ns]
    ELSE IF IsNoteOff(m) /\ m.note \in DOMAIN act
    THEN [abs_time |-> now,
          active |-> MapDel(act, m.note),
          notes |-> Append(ns, [start |-> act[m.note], end |-> now, note |-> m.note])]
    ELSE [abs_time |-> now, active |-> act, notes |-> ns]

Init ==
    /\ pc = "tracks"
    /\ ticks_per_beat \in TicksPerBeatValues
    /\ ticks_per_step = ticks_per_beat \div subdivision
    /\ ntracks = 0
    /\ nmsgs = 0
    /\ abs_time = 0
    /\ active = EmptyMap
    /\ notes = <<>>
    /\ activeTrack = EmptyMap
    /\ origin = <<>>
    /\ num_rows = 0
    /\ chart = <<>>
    /\ painted = 0
    /\ skipped = {}
    /\ opened = FALSE
    /\ output = <<>>
    /\ outcome = "running"

\* lines 27-28: the next track of mid.tracks begins.
StartTrack ==
    /\ pc = "tracks"
    /\ ntracks < MaxTracks
    /\ pc' = "msgs"
    /\ ntracks' = ntracks + 1
    /\ abs_time' = 0
    /\ UNCHANGED <<ticks_per_beat, ticks_per_step, nmsgs, active, notes,
                   activeTrack, origin, num_rows, chart, painted, skipped, opened,
                   output, outcome>>

\* lines 29-36: the next message of the track.
NextMsg ==
    /\ pc = "msgs"
    /\ nmsgs < MaxMsgs
    /\ \E m \in Msgs :
        LET r == HandleMsg(abs_time, active, notes, m) IN
        /\ abs_time' = r.abs_time
        /\ active' = r.active
        /\ notes' = r.notes
        /\ activeTrack' =
             IF IsNoteOn(m) THEN MapSet(activeTrack, m.note, ntracks)
             ELSE IF r.notes # notes THEN MapDel(activeTrack, m.note)
             ELSE activeTrack
        /\ origin' =
             IF r.notes # notes
             THEN Append(origin, [on |-> activeTrack[m.note], off |-> ntracks])
             ELSE origin
    /\ nmsgs' = nmsgs + 1
    /\ UNCHANGED <<pc, ticks_per_beat, ticks_per_step, ntracks, num_rows, chart,
                   painted, skipped, opened, output, outcome>>

\* line 29: the track has no more messages.
EndTrack ==
    /\ pc = "msgs"
    /\ pc' = "tracks"
    /\ UNCHANGED <<ticks_per_beat, ticks_per_step, ntracks, nmsgs, abs_time,
                   active, notes, activeTrack, origin, num_rows, chart, painted,
                   skipped, opened, output, outcome>>

\* line 27: mid.tracks has no more tracks.
EndTracks ==
    /\ pc = "tracks"
    /\ pc' = "paired"
    /\ UNCHANGED <<ticks_per_beat, ticks_per_step, ntracks, nmsgs, abs_time,
                   active, notes, activeTrack, origin, num_rows, chart, painted,
                   skipped, opened, output, outcome>>

\* ------------------------------------------------------------- quantization
\* A variant of Quantize that rounds up instead of down.
QuantizeRoundUp(tick, tps) == (tick + tps - 1) \div tps

\* lines 55-56: tick // ticks_per_step (ticks are never negative, steps > 0)
Quantize(tick, tps) == tick \div tps

\* line 43: max(end for _, end, _ in notes)
MaxTick(ns) ==
    CHOOSE e \in {ns[i].end : i \in 1..Len(ns)} : \A i \in 1..Len(ns) : ns[i].end <= e

\* A variant of NumSteps without the step that holds max_tick itself.
NumStepsNoLastStep(ns, tps) == MaxTick(ns) \div tps

\* line 44: (max_tick // ticks_per_step) + 1
NumSteps(ns, tps) == (MaxTick(ns) \div tps) + 1

\* line 45: num_steps * rows_per_step
NumRows(ns, tps) == NumSteps(ns, tps) * rows_per_step

\* line 48: [[0, 0, 0, 0] for _ in range(num_rows)]; chart[r + 1] is row r.
EmptyChart(nrows) == [r \in 1..nrows |-> <<0, 0, 0, 0>>]

\* ------------------------------------------------------------ row expansion
\* line 51: note in lane_notes
InLane(note) == \E i \in 1..Len(lane_notes) : lane_notes[i] = note

\* line 53: lane_notes.index(note), the first position holding note, from 0
LaneOf(note) ==
    (CHOOSE i \in 1..Len(lane_notes) :
        /\ lane_notes[i] = note
        /\ \A j \in 1..(i - 1) : lane_notes[j] # note) - 1

\* lines 58-59
StartRow(iv, tps) == Quantize(iv.start, tps) * rows_per_step
EndRow(iv, tps) == Quantize(iv.end, tps) * rows_per_step

\* line 62: range(start_row, end_row)
RowRange(iv, tps) == StartRow(iv, tps)..(EndRow(iv, tps) - 1)

\* A variant of CellCode whose head is the first row only.
CellCodeOneRowHead(row, iv, tps) == IF row <= StartRow(iv, tps) THEN 2 ELSE 1

\* lines 64-67: the code written into a row of the interval
CellCode(row, iv, tps) == IF row < StartRow(iv, tps) + rows_per_step THEN 2 ELSE 1

\* A variant of PaintNote that never overwrites a cell already painted.
PaintNoteFirstWins(ch, nrows, iv, tps) ==
    IF ~InLane(iv.note) THEN ch
    ELSE [r \in 1..Len(ch) |->
            IF /\ (r - 1) \in RowRange(iv, tps)
               /\ (r - 1) < nrows
               /\ ch[r][LaneOf(iv.note) + 1] = 0
            THEN [ch[r] EXCEPT ![LaneOf(iv.note) + 1] = CellCode(r - 1, iv, tps)]
            ELSE ch[r]]

\* A variant of PaintNote that maps every note to a lane by its pitch modulo
\* 4 instead of skipping the notes outside lane_notes.
PaintNoteWrapLanes(ch, nrows, iv, tps) ==
    [r \in 1..Len(ch) |->
        IF (r - 1) \in RowRange(iv, tps) /\ (r - 1) < nrows
        THEN [ch[r] EXCEPT ![(iv.note % 4) + 1] = CellCode(r - 1, iv, tps)]
        ELSE ch[r]]

\* lines 51-67: the body of the loop over notes, as the chart after it.
PaintNote(ch, nrows, iv, tps) ==
    IF ~InLane(iv.note) THEN ch
    ELSE [r \in 1..Len(ch) |->
            IF (r - 1) \in RowRange(iv, tps) /\ (r - 1) < nrows
            THEN [ch[r] EXCEPT ![LaneOf(iv.note) + 1] = CellCode(r - 1, iv, tps)]
            ELSE ch[r]]

\* line 63: the rows of the interval the guard row < num_rows rejects
Rejected(nrows, iv, tps) ==
    IF ~InLane(iv.note) THEN {}
    ELSE {row \in RowRange(iv, tps) : ~(row < nrows)}

\* lines 42-67: the chart of a non-empty interval list.
RECURSIVE PaintAll(_, _, _, _, _)
PaintAll(ch, nrows, ns, k, tps) ==
    IF k > Len(ns) THEN ch
    ELSE PaintAll(PaintNote(ch, nrows, ns[k], tps), nrows, ns, k + 1, tps)

BuildChart(ns, tps) ==
    PaintAll(EmptyChart(NumRows(ns, tps)), NumRows(ns, tps), ns, 1, tps)

\* ------------------------------------------------------------ serialization
\* f"{val:b}": the binary digits of val, most significant first
RECURSIVE Binary(_)
Binary(val) ==
    IF val < 2 THEN <<IF val = 0 THEN "0" ELSE "1">>
    ELSE Binary(val \div 2) \o <<IF val % 2 = 0 THEN "0" ELSE "1">>

\* A variant of Format02b without the padding: f"{val:b}".
FormatUnpadded(val) == Binary(val)

\* line 72: f"{val:02b}", padded with zeros to at least 2 digits
Format02b(val) ==
    IF Len(Binary(val)) < 2 THEN <<"0">> \o Binary(val) ELSE Binary(val)

\* line 72: "".join(f"{val:02b}" for val in row)
RECURSIVE Join(_, _)
Join(row, i) == IF i > Len(row) THEN <<>> ELSE Format02b(row[i]) \o Join(row, i + 1)

\* lines 72-73: a line is a sequence of digits; the "\n" that ends it is the
\* boundary between two elements of output.
Line(row) == Join(row, 1)

\* ------------------------------------------------------------------ actions
\* A variant of NoNotesFound that goes on to write the (empty) chart.
NoNotesFoundWritesFile ==
    /\ pc = "paired"
    /\ notes = <<>>
    /\ opened' = TRUE
    /\ pc' = "done"
    /\ outcome' = "written"
    /\ UNCHANGED <<ticks_per_beat, ticks_per_step, ntracks, nmsgs, abs_time,
                   active, notes, activeTrack, origin, num_rows, chart, painted,
                   skipped, output>>

\* lines 38-40: no interval was paired.
NoNotesFound ==
    /\ pc = "paired"
    /\ notes = <<>>
    /\ pc' = "done"
    /\ outcome' = "NoNotesFound"
    /\ UNCHANGED <<ticks_per_beat, ticks_per_step, ntracks, nmsgs, abs_time,
                   active, notes, activeTrack, origin, num_rows, chart, painted,
                   skipped, opened, output>>

\* lines 43-48: the chart is sized and zeroed.
ChartLength ==
    /\ pc = "paired"
    /\ notes # <<>>
    /\ ticks_per_step # 0
    /\ num_rows' = NumRows(notes, ticks_per_step)
    /\ chart' = EmptyChart(NumRows(notes, ticks_per_step))
    /\ pc' = "paint"
    /\ UNCHANGED <<ticks_per_beat, ticks_per_step, ntracks, nmsgs, abs_time,
                   active, notes, activeTrack, origin, painted, skipped, opened,
                   output, outcome>>

\* line 44 with ticks_per_step = 0: max_tick // 0 raises ZeroDivisionError.
DivisionByZero ==
    /\ pc = "paired"
    /\ notes # <<>>
    /\ ticks_per_step = 0
    /\ pc' = "done"
    /\ outcome' = "ZeroDivisionError"
    /\ UNCHANGED <<ticks_per_beat, ticks_per_step, ntracks, nmsgs, abs_time,
                   active, notes, activeTrack, origin, num_rows, chart, painted,
                   skipped, opened, output>>

\* lines 50-67: the next interval of notes is painted.
PaintNext ==
    /\ pc = "paint"
    /\ painted < Len(notes)
    /\ chart' = PaintNote(chart, num_rows, notes[painted + 1], ticks_per_step)
    /\ skipped' = skipped \cup Rejected(num_rows, notes[painted + 1], ticks_per_step)
    /\ painted' = painted + 1
    /\ UNCHANGED <<pc, ticks_per_beat, ticks_per_step, ntracks, nmsgs, abs_time,
                   active, notes, activeTrack, origin, num_rows, opened, output,
                   outcome>>

\* lines 69-73: the loop over notes is over; the output file is opened and
\* every row of the chart is written as a line, in chart order.
WriteOutput ==
    /\ pc = "paint"
    /\ painted = Len(notes)
    /\ opened' = TRUE
    /\ output' = [r \in 1..Len(chart) |-> Line(chart[r])]
    /\ pc' = "done"
    /\ outcome' = "written"
    /\ UNCHANGED <<ticks_per_beat, ticks_per_step, ntracks, nmsgs, abs_time,
                   active, notes, activeTrack, origin, num_rows, chart, painted,
                   skipped>>

Next ==
    \/ StartTrack
    \/ NextMsg
    \/ EndTrack
    \/ EndTracks
    \/ NoNotesFound
    \/ ChartLength
    \/ DivisionByZero
    \/ PaintNext
    \/ WriteOutput

Spec == Init /\ [][Next]_vars

\* ============================================================== properties
\* The run has materialized its chart: it is painting, or has written it.
HasChart == pc = "paint" \/ outcome = "written"
Written == outcome = "written"
NONE == 0
TAIL == 1
HEAD == 2

\* ---------------------------------------------------------------------- C1
\* C1: tracks are paired independently: every interval of the pooled list
\* pairs a note-on with a note-off of the same track, so a note-on still
\* pending when its track ends never yields an interval.
C1_TracksPairedIndependently ==
    \A i \in 1..Len(origin) : origin[i].on = origin[i].off

\* ---------------------------------------------------------------------- C2
\* C2: every interval appended to the pooled list has end_tick >= start_tick.
C2_EndNotBeforeStart ==
    \A i \in 1..Len(notes) : notes[i].end >= notes[i].start

\* ---------------------------------------------------------------------- C3
\* C3: with at least one interval and ticks_per_step > 0 the run writes its
\* chart; the chart has (floor(max_end_tick / ticks_per_step) + 1) *
\* rows_per_step rows, max_end_tick the largest end tick of the pooled
\* intervals, and exactly that many lines are written, line r rendering row r.
C3_ChartLength ==
    /\ HasChart =>
         \E i \in 1..Len(notes) :
            /\ \A j \in 1..Len(notes) : notes[j].end <= notes[i].end
            /\ num_rows = ((notes[i].end \div ticks_per_step) + 1) * rows_per_step
            /\ Len(chart) = num_rows
            /\ Written =>
                 /\ Len(output) = num_rows
                 /\ \A r \in 1..num_rows : output[r] = Line(chart[r])
    /\ (pc = "done" /\ notes # <<>> /\ ticks_per_step > 0) => Written

\* A written chart whose largest end tick, 300, is not a whole number of the
\* 120-tick steps: 3 steps, 12 rows.
C3_Witness ==
    /\ Written
    /\ ticks_per_step = 120
    /\ \E i \in 1..Len(notes) : notes[i].end = 300
    /\ \A i \in 1..Len(notes) : notes[i].end <= 300
    /\ Len(output) = 12

\* ---------------------------------------------------------------------- C4
\* The intervals among the first k of notes that lie on lane l (from 0) and
\* hold row r in [start_step * rows_per_step, end_step * rows_per_step).
Covering(k, r, l) ==
    {i \in 1..k :
        /\ notes[i].note = lane_notes[l + 1]
        /\ (notes[i].start \div ticks_per_step) * rows_per_step <= r
        /\ r < (notes[i].end \div ticks_per_step) * rows_per_step}

LastOf(S) == CHOOSE i \in S : \A j \in S : j <= i

\* The code interval i gives row r: HEAD in its first rows_per_step rows.
CodeOf(i, r) ==
    IF r < (notes[i].start \div ticks_per_step) * rows_per_step + rows_per_step
    THEN HEAD ELSE TAIL

\* C4: once the first k intervals are painted, a cell of row r and lane l is
\* NONE when none of them covers it and else carries the code of the LAST of
\* them in pooled order that does (HEAD below start_row + rows_per_step, else
\* TAIL); an interval with start_step = end_step covers no row.
C4_LastIntervalDecidesCell ==
    HasChart =>
        \A r \in 0..(num_rows - 1) : \A l \in 0..3 :
            chart[r + 1][l + 1] =
                IF Covering(painted, r, l) = {} THEN NONE
                ELSE CodeOf(LastOf(Covering(painted, r, l)), r)

\* A written chart with a cell two intervals cover, the earlier one with
\* another code than the later one's, which the cell carries.
C4_Witness ==
    /\ Written
    /\ \E r \in 0..(num_rows - 1) : \E l \in 0..3 :
        /\ Cardinality(Covering(Len(notes), r, l)) >= 2
        /\ \E i \in Covering(Len(notes), r, l) : CodeOf(i, r) # chart[r + 1][l + 1]

\* ---------------------------------------------------------------------- C5
\* The run of the end-to-end scenario: ticks_per_beat 480, one track whose
\* four events pair note 60 over [0, 120] and then note 61 over [120, 240].
Scenario ==
    /\ Written
    /\ ticks_per_beat = 480
    /\ ntracks = 1
    /\ nmsgs = 4
    /\ notes = <<[start |-> 0, end |-> 120, note |-> 60],
                 [start |-> 120, end |-> 240, note |-> 61]>>

NoTail == \A r \in 1..Len(chart) : \A l \in 1..4 : chart[r][l] # TAIL

\* C5 as stated: the scenario's chart has 8 rows, rows 0-3 HEAD on lane 0,
\* rows 4-7 HEAD on lane 1, every other cell NONE and no TAIL.
C5_ScenarioEightRows ==
    Scenario =>
        /\ Len(chart) = 8
        /\ \A r \in 1..4 : chart[r] = <<HEAD, NONE, NONE, NONE>>
        /\ \A r \in 5..8 : chart[r] = <<NONE, HEAD, NONE, NONE>>
        /\ NoTail

\* C5 amended: the scenario's chart has 12 rows: rows 0-3 HEAD on lane 0,
\* rows 4-7 HEAD on lane 1, rows 8-11 all NONE, no TAIL; 12 lines are written.
C5_ScenarioTwelveRows ==
    Scenario =>
        /\ Len(chart) = 12
        /\ \A r \in 1..4 : chart[r] = <<HEAD, NONE, NONE, NONE>>
        /\ \A r \in 5..8 : chart[r] = <<NONE, HEAD, NONE, NONE>>
        /\ \A r \in 9..12 : chart[r] = <<NONE, NONE, NONE, NONE>>
        /\ NoTail
        /\ Len(output) = 12
        /\ \A r \in 1..4 : output[r] = <<"1", "0", "0", "0", "0", "0", "0", "0">>
        /\ \A r \in 5..8 : output[r] = <<"0", "0", "1", "0", "0", "0", "0", "0">>
        /\ \A r \in 9..12 : output[r] = <<"0", "0", "0", "0", "0", "0", "0", "0">>

C5_Witness == Scenario /\ active = EmptyMap /\ abs_time = 240

\* ---------------------------------------------------------------------- C6
\* The pooled list without its i-th interval.
Without(ns, i) == SubSeq(ns, 1, i - 1) \o SubSeq(ns, i + 1, Len(ns))

OutOfLane(i) == \A l \in 1..Len(lane_notes) : lane_notes[l] # notes[i].note

AllNone(row) == row = <<NONE, NONE, NONE, NONE>>

\* C6 as stated: the chart written for a pooled list equals (same number of
\* rows, same code in every cell) the chart of the list without any one of
\* its intervals whose note is not in lane_notes.
C6_OutOfLaneChangesNothing ==
    Written =>
        \A i \in 1..Len(notes) :
            (OutOfLane(i) /\ Without(notes, i) # <<>>) =>
                chart = BuildChart(Without(notes, i), ticks_per_step)

\* C6 amended: an interval whose note is not in lane_notes paints no cell,
\* but its end tick counts for the chart's length.  Against the chart of the
\* list without it (some interval remaining), the chart written has the same
\* code in every cell of every row both have and at least as many rows, the
\* extra rows all NONE; the charts are equal when its end tick is not above
\* the largest end tick of the others.
C6_OutOfLanePaintsNothing ==
    Written =>
        \A i \in 1..Len(notes) :
            (OutOfLane(i) /\ Without(notes, i) # <<>>) =>
                LET others == Without(notes, i)
                    other == BuildChart(others, ticks_per_step)
                IN  /\ Len(other) <= Len(chart)
                    /\ \A r \in 1..Len(other) : chart[r] = other[r]
                    /\ \A r \in (Len(other) + 1)..Len(chart) : AllNone(chart[r])
                    /\ (\E j \in 1..Len(others) : notes[i].end <= others[j].end)
                         => chart = other

\* A written chart with painted cells that an out-of-lane interval, ending
\* after every other interval, has made longer.
C6_Witness ==
    /\ Written
    /\ \E r \in 1..Len(chart) : ~AllNone(chart[r])
    /\ \E i \in 1..Len(notes) :
        /\ OutOfLane(i)
        /\ Without(notes, i) # <<>>
        /\ Len(BuildChart(Without(notes, i), ticks_per_step)) < Len(chart)

\* ---------------------------------------------------------------------- C7
\* C7: a run whose pairing yields no interval ends as NoNotesFound with the
\* output file never opened or written and no chart sized, whatever
\* ticks_per_step is (0 included); and in every run the output file is
\* opened and written only once every interval has been painted.
C7_NoNotesNoOutput ==
    /\ (pc \in {"paired", "done"} /\ notes = <<>>) =>
         /\ ~opened
         /\ output = <<>>
         /\ chart = <<>>
         /\ num_rows = 0
         /\ pc = "done" => outcome = "NoNotesFound"
    /\ (opened \/ output # <<>>) =>
         /\ notes # <<>>
         /\ painted = Len(notes)
         /\ outcome = "written"

\* A run with ticks_per_step = 0 that read a note-on, never closed it, and
\* ended as NoNotesFound.
C7_Witness ==
    /\ pc = "done"
    /\ notes = <<>>
    /\ ticks_per_step = 0
    /\ active # EmptyMap
    /\ outcome = "NoNotesFound"

\* ---------------------------------------------------------------------- C8
\* The 2-bit field of lane l (from 0) of a line, and the code it stands for.
Field(line, l) == SubSeq(line, 2 * l + 1, 2 * l + 2)

Decode(field) ==
    IF field = <<"0", "0">> THEN 0
    ELSE IF field = <<"0", "1">> THEN 1
    ELSE IF field = <<"1", "0">> THEN 2
    ELSE 3

\* C8: every chart cell is 0, 1 or 2 in every state; every line written has
\* exactly 8 characters, its four fields are 00, 01 or 10 (never 11) and
\* decode to the 4 codes of its row.
C8_LinesRoundTrip ==
    /\ \A r \in 1..Len(chart) : \A l \in 1..4 : chart[r][l] \in {0, 1, 2}
    /\ \A r \in 1..Len(output) :
        /\ Len(output[r]) = 8
        /\ \A l \in 0..3 :
            /\ Field(output[r], l) \in {<<"0", "0">>, <<"0", "1">>, <<"1", "0">>}
            /\ Decode(Field(output[r], l)) = chart[r][l + 1]

\* An output with a line that holds a head (10) on one lane and a tail (01)
\* on another.
C8_Witness ==
    /\ Written
    /\ \E r \in 1..Len(output) : \E l, m \in 0..3 :
        /\ Field(output[r], l) = <<"1", "0">>
        /\ Field(output[r], m) = <<"0", "1">>

\* ---------------------------------------------------------------------- C9
ZeroVelocityOn(n, d) == [type |-> "note_on", note |-> n, velocity |-> 0, time |-> d]
ExplicitOff(n, d) == [type |-> "note_off", note |-> n, velocity |-> 64, time |-> d]

\* C9: at every point of a track, a note-on of velocity 0 leaves abs_time,
\* the pending map and the pooled list exactly as the note-off of the same
\* note and delta does: it closes the note's pending interval at the current
\* tick if there is one, changes nothing else if there is none, and never
\* records a pending start.
C9_ZeroVelocityIsNoteOff ==
    pc = "msgs" =>
        \A n \in NoteValues : \A d \in DeltaValues :
            LET r == HandleMsg(abs_time, active, notes, ZeroVelocityOn(n, d)) IN
            /\ r = HandleMsg(abs_time, active, notes, ExplicitOff(n, d))
            /\ r.abs_time = abs_time + d
            /\ n \notin DOMAIN r.active
            /\ \A k \in DOMAIN r.active : k \in DOMAIN active /\ r.active[k] = active[k]
            /\ (DOMAIN active) \ {n} \subseteq DOMAIN r.active
            /\ r.notes =
                 IF n \in DOMAIN active
                 THEN Append(notes, [start |-> active[n], end |-> abs_time + d, note |-> n])
                 ELSE notes

\* A point of a track where one note is pending, another is not, and an
\* interval has been closed before.
C9_Witness ==
    /\ pc = "msgs"
    /\ notes # <<>>
    /\ \E n \in NoteValues : n \in DOMAIN active /\ active[n] < abs_time
    /\ \E n \in NoteValues : n \notin DOMAIN active

\* --------------------------------------------------------------------- C10
\* C10: every pooled interval has end_row <= num_rows - rows_per_step, the
\* painting loop visits no row >= num_rows (the guard of line 63 rejects
\* nothing), and the last rows_per_step rows of the chart stay NONE and are
\* written as 00000000.
C10_LastStepStaysEmpty ==
    HasChart =>
        /\ \A i \in 1..Len(notes) :
            /\ (notes[i].end \div ticks_per_step) * rows_per_step
                 <= num_rows - rows_per_step
            /\ \A row \in ((notes[i].start \div ticks_per_step) * rows_per_step)
                          ..((notes[i].end \div ticks_per_step) * rows_per_step - 1) :
                 row < num_rows
        /\ skipped = {}
        /\ num_rows >= rows_per_step
        /\ \A r \in (num_rows - rows_per_step + 1)..num_rows : AllNone(chart[r])
        /\ Written =>
             \A r \in (num_rows - rows_per_step + 1)..num_rows :
                output[r] = <<"0", "0", "0", "0", "0", "0", "0", "0">>

\* A written chart that an in-lane interval has painted up to the row just
\* below the last rows_per_step rows.
C10_Witness ==
    /\ Written
    /\ num_rows > rows_per_step
    /\ ~AllNone(chart[num_rows - rows_per_step])
====
